---------------------------- MODULE Spec2Model ----------------------------
(***************************************************************************)
(* Aggregator extension of the Move VM                                     *)
(* (aptos-move/aptos-aggregator/src/aggregator_extension.rs).              *)
(*                                                                         *)
(* An Aggregator is the record (value, state, limit, history); the         *)
(* per-transaction registry AggregatorData holds a map of aggregators,     *)
(* the sets of created and destroyed ids and the id counter.  Every public *)
(* method is one action; the methods of Aggregator are operators that      *)
(* return the aggregator they leave behind together with the call's        *)
(* result.                                                                 *)
(***************************************************************************)
EXTENDS Integers, Sequences, FiniteSets, TLC

(***************************************************************************)
(* Bounds of the model.                                                    *)
(***************************************************************************)
\* Largest limit a caller passes to get_aggregator / create_new_aggregator.
MaxLimit == 2
\* Largest value the id counter is driven to.
MaxCounter == 1

\* The aggregator ids the transaction touches.
AggregatorIDs == {1}
\* The ids of a transaction that touches two aggregators, with the limits,
\* amounts and stored values of its calls.
PairIDs == {1, 2}
PairLimits == {1}
PairDeltas == {1}
PairStoredValues == {0, 1}
\* The limits callers pass.
Limits == 0 .. MaxLimit
\* The amounts callers add and subtract: enough to overshoot every limit.
Deltas == 0 .. (MaxLimit + 1)
\* The values storage may hold for an aggregator.
StoredValues == 0 .. (MaxLimit + 1)

(***************************************************************************)
(* Results (PartialVMResult).  err is "Ok" or the kind of the error.       *)
(***************************************************************************)
Ok(v) == [err |-> "Ok", val |-> v]

Err(e) == [err |-> e, val |-> 0]

\* extension_error: the VM_EXTENSION_ERROR raised when the resolver fails.
extension_error == Err("ResolutionFailed")

\* Width of the unsigned integers that addition and subtraction are run on
\* by themselves (128 in the source).
WordBits == 3

WordRange == 2 ^ WordBits

\* A bug of addition: the sum is taken in the width of the operands.
addition_Wrapping(a, b, limit) ==
    LET sum == (a + b) % WordRange
    IN  IF sum <= limit THEN Ok(sum) ELSE Err("Overflow")

\* delta_change_set::addition: a + b when it is at most limit.
addition(a, b, limit) == IF a + b <= limit THEN Ok(a + b) ELSE Err("Overflow")

\* delta_change_set::subtraction: a - b when b is at most a.
subtraction(a, b) == IF b <= a THEN Ok(a - b) ELSE Err("Underflow")

(***************************************************************************)
(* The resolver's answer to resolve_aggregator_value(id): a value or a     *)
(* failure.  The resolver is an argument of each call.                     *)
(***************************************************************************)
Resolved(v) == [found |-> TRUE, value |-> v]

ResolveFailure == [found |-> FALSE, value |-> 0]

ResolverAnswers == {ResolveFailure} \cup {Resolved(v) : v \in StoredValues}

(***************************************************************************)
(* History and Aggregator.  Option<History> is a sequence of length <= 1.  *)
(***************************************************************************)
None == << >>

Some(h) == << h >>

HistoryNew == [max_positive |-> 0, min_negative |-> 0]

\* A bug of History: the last positive value is kept, not the largest.
record_positive_Last(h, value) == [h EXCEPT !.max_positive = value]

record_positive(h, value) ==
    [h EXCEPT !.max_positive = IF h.max_positive >= value THEN h.max_positive ELSE value]

\* A bug of History: the last negative magnitude is kept, not the largest.
record_negative_Last(h, value) == [h EXCEPT !.min_negative = value]

record_negative(h, value) ==
    [h EXCEPT !.min_negative = IF h.min_negative >= value THEN h.min_negative ELSE value]

\* What a method of Aggregator leaves behind: the aggregator, the result,
\* whether it panicked, and how many times it called the resolver.
Outcome(agg, res, panic, calls) ==
    [agg |-> agg, err |-> res.err, val |-> res.val, panic |-> panic, resolver_calls |-> calls]

\* A bug of record: every delta is recorded on the positive side.
record_OneSided(agg) ==
    IF agg.history # None
    THEN [agg |-> [agg EXCEPT !.history = Some(record_positive(agg.history[1], agg.value))],
          panic |-> agg.state = "Data"]
    ELSE [agg |-> agg, panic |-> FALSE]

\* Aggregator::record
record(agg) ==
    IF agg.history # None
    THEN CASE agg.state = "PositiveDelta" ->
                [agg |-> [agg EXCEPT !.history = Some(record_positive(agg.history[1], agg.value))],
                 panic |-> FALSE]
           [] agg.state = "NegativeDelta" ->
                [agg |-> [agg EXCEPT !.history = Some(record_negative(agg.history[1], agg.value))],
                 panic |-> FALSE]
           [] agg.state = "Data" ->
                \* unreachable!()
                [agg |-> agg, panic |-> TRUE]
    ELSE [agg |-> agg, panic |-> FALSE]

\* A bug of add and sub: the new value is not recorded in the history.
Recorded_NoRecord(agg) == Outcome(agg, Ok(0), FALSE, 0)

\* The tail of add and sub: self.record(); Ok(())
Recorded(agg) ==
    LET rec == record(agg) IN Outcome(rec.agg, Ok(0), rec.panic, 0)

\* Aggregator::add, state Data: add directly, return without recording.
add_Data(agg, value) ==
    LET r == addition(agg.value, value, agg.limit) IN
    IF r.err # "Ok" THEN Outcome(agg, r, FALSE, 0)
    ELSE Outcome([agg EXCEPT !.value = r.val], Ok(0), FALSE, 0)

\* Aggregator::add, state PositiveDelta.
add_PositiveDelta(agg, value) ==
    LET r == addition(agg.value, value, agg.limit) IN
    IF r.err # "Ok" THEN Outcome(agg, r, FALSE, 0)
    ELSE Recorded([agg EXCEPT !.value = r.val])

\* A bug of add: -X + Y with X = Y is kept as a negative delta of 0.
add_StrictCompare(agg, value) ==
    IF agg.value < value
    THEN LET r == subtraction(value, agg.value) IN
         IF r.err # "Ok" THEN Outcome(agg, r, FALSE, 0)
         ELSE Recorded([agg EXCEPT !.value = r.val, !.state = "PositiveDelta"])
    ELSE LET r == subtraction(agg.value, value) IN
         IF r.err # "Ok" THEN Outcome(agg, r, FALSE, 0)
         ELSE Recorded([agg EXCEPT !.value = r.val])

\* A bug of add: the state is not flipped when the delta turns positive.
add_KeepsNegative(agg, value) ==
    IF agg.value <= value
    THEN LET r == subtraction(value, agg.value) IN
         IF r.err # "Ok" THEN Outcome(agg, r, FALSE, 0)
         ELSE Recorded([agg EXCEPT !.value = r.val])
    ELSE LET r == subtraction(agg.value, value) IN
         IF r.err # "Ok" THEN Outcome(agg, r, FALSE, 0)
         ELSE Recorded([agg EXCEPT !.value = r.val])

\* Aggregator::add, state NegativeDelta: -X + Y is +(Y-X) if X <= Y, else -(X-Y).
add_NegativeDelta(agg, value) ==
    IF agg.value <= value
    THEN LET r == subtraction(value, agg.value) IN
         IF r.err # "Ok" THEN Outcome(agg, r, FALSE, 0)
         ELSE Recorded([agg EXCEPT !.value = r.val, !.state = "PositiveDelta"])
    ELSE LET r == subtraction(agg.value, value) IN
         IF r.err # "Ok" THEN Outcome(agg, r, FALSE, 0)
         ELSE Recorded([agg EXCEPT !.value = r.val])

\* Aggregator::add
add(agg, value) ==
    CASE agg.state = "Data" -> add_Data(agg, value)
      [] agg.state = "PositiveDelta" -> add_PositiveDelta(agg, value)
      [] agg.state = "NegativeDelta" -> add_NegativeDelta(agg, value)

\* A bug of sub: a known value is treated as a delta, and may turn negative.
sub_DataAsDelta(agg, value) ==
    IF agg.value >= value
    THEN Outcome([agg EXCEPT !.value = agg.value - value], Ok(0), FALSE, 0)
    ELSE LET g == subtraction(agg.limit, value) IN
         IF g.err # "Ok" THEN Outcome(agg, g, FALSE, 0)
         ELSE Outcome([agg EXCEPT !.value = value - agg.value, !.state = "NegativeDelta"],
                      Ok(0), FALSE, 0)

\* A bug of sub: a subtraction below zero stops at zero.
sub_Data_Saturating(agg, value) ==
    Outcome([agg EXCEPT !.value = IF value > agg.value THEN 0 ELSE agg.value - value],
            Ok(0), FALSE, 0)

\* Aggregator::sub, state Data: subtract directly, return without recording.
sub_Data(agg, value) ==
    LET r == subtraction(agg.value, value) IN
    IF r.err # "Ok" THEN Outcome(agg, r, FALSE, 0)
    ELSE Outcome([agg EXCEPT !.value = r.val], Ok(0), FALSE, 0)

\* A bug of sub: the amount is not checked against the limit.
sub_NoLimitGuard(agg, value) ==
    IF agg.value >= value
    THEN LET r == subtraction(agg.value, value) IN
         IF r.err # "Ok" THEN Outcome(agg, r, FALSE, 0)
         ELSE Recorded([agg EXCEPT !.value = r.val])
    ELSE LET r == subtraction(value, agg.value) IN
         IF r.err # "Ok" THEN Outcome(agg, r, FALSE, 0)
         ELSE Recorded([agg EXCEPT !.value = r.val, !.state = "NegativeDelta"])

\* Aggregator::sub, state PositiveDelta: +X - Y is +(X-Y) if X >= Y, else -(Y-X),
\* the latter only when Y can be subtracted from the limit.
sub_PositiveDelta(agg, value) ==
    IF agg.value >= value
    THEN LET r == subtraction(agg.value, value) IN
         IF r.err # "Ok" THEN Outcome(agg, r, FALSE, 0)
         ELSE Recorded([agg EXCEPT !.value = r.val])
    ELSE LET g == subtraction(agg.limit, value) IN
         IF g.err # "Ok" THEN Outcome(agg, g, FALSE, 0)
         ELSE LET r == subtraction(value, agg.value) IN
              IF r.err # "Ok" THEN Outcome(agg, r, FALSE, 0)
              ELSE Recorded([agg EXCEPT !.value = r.val, !.state = "NegativeDelta"])

\* A bug of sub: the magnitude of a negative delta grows past the limit.
sub_NegativeDelta_Unchecked(agg, value) ==
    Recorded([agg EXCEPT !.value = agg.value + value])

\* Aggregator::sub, state NegativeDelta: the magnitude grows, up to the limit.
sub_NegativeDelta(agg, value) ==
    LET r == addition(agg.value, value, agg.limit) IN
    IF r.err # "Ok" THEN Outcome(agg, r, FALSE, 0)
    ELSE Recorded([agg EXCEPT !.value = r.val])

\* Aggregator::sub
sub(agg, value) ==
    CASE agg.state = "Data" -> sub_Data(agg, value)
      [] agg.state = "PositiveDelta" -> sub_PositiveDelta(agg, value)
      [] agg.state = "NegativeDelta" -> sub_NegativeDelta(agg, value)

\* A bug of read_and_materialize: the pending delta is dropped.
ApplyDelta_BaseOnly(agg, value_from_storage) == Ok(value_from_storage)

\* The delta applied to the value read from storage (the match of
\* read_and_materialize).
ApplyDelta(agg, value_from_storage) ==
    IF agg.state = "PositiveDelta"
    THEN addition(value_from_storage, agg.value, agg.limit)
    ELSE subtraction(value_from_storage, agg.value)

\* A bug of read_and_materialize: the delta is applied to self.value before
\* the history is validated.
read_and_materialize_ApplyFirst(agg, resolver) ==
    IF agg.state = "Data" THEN Outcome(agg, Ok(agg.value), FALSE, 0)
    ELSE IF ~resolver.found THEN Outcome(agg, extension_error, FALSE, 1)
    ELSE IF agg.history = None THEN Outcome(agg, Ok(0), TRUE, 1)
    ELSE LET history == agg.history[1]
             r  == ApplyDelta(agg, resolver.value)
             applied == [agg EXCEPT !.value = r.val]
             hp == addition(resolver.value, history.max_positive, agg.limit)
             hn == subtraction(resolver.value, history.min_negative)
         IN  IF r.err # "Ok" THEN Outcome(agg, r, FALSE, 1)
             ELSE IF hp.err # "Ok" THEN Outcome(applied, hp, FALSE, 1)
             ELSE IF hn.err # "Ok" THEN Outcome(applied, hn, FALSE, 1)
             ELSE Outcome([applied EXCEPT !.state = "Data", !.history = None],
                          Ok(r.val), FALSE, 1)

\* A bug of read_and_materialize: only the current delta is validated.
read_and_materialize_NoHistoryCheck(agg, resolver) ==
    IF agg.state = "Data" THEN Outcome(agg, Ok(agg.value), FALSE, 0)
    ELSE IF ~resolver.found THEN Outcome(agg, extension_error, FALSE, 1)
    ELSE IF agg.history = None THEN Outcome(agg, Ok(0), TRUE, 1)
    ELSE LET r == ApplyDelta(agg, resolver.value)
         IN  IF r.err # "Ok" THEN Outcome(agg, r, FALSE, 1)
             ELSE Outcome([agg EXCEPT !.value = r.val, !.state = "Data", !.history = None],
                          Ok(r.val), FALSE, 1)

\* A bug of read_and_materialize: the history is kept after the read.
read_and_materialize_KeepsHistory(agg, resolver) ==
    IF agg.state = "Data" THEN Outcome(agg, Ok(agg.value), FALSE, 0)
    ELSE IF ~resolver.found THEN Outcome(agg, extension_error, FALSE, 1)
    ELSE IF agg.history = None THEN Outcome(agg, Ok(0), TRUE, 1)
    ELSE LET history == agg.history[1]
             hp == addition(resolver.value, history.max_positive, agg.limit)
             hn == subtraction(resolver.value, history.min_negative)
             r  == ApplyDelta(agg, resolver.value)
         IN  IF hp.err # "Ok" THEN Outcome(agg, hp, FALSE, 1)
             ELSE IF hn.err # "Ok" THEN Outcome(agg, hn, FALSE, 1)
             ELSE IF r.err # "Ok" THEN Outcome(agg, r, FALSE, 1)
             ELSE Outcome([agg EXCEPT !.value = r.val, !.state = "Data"],
                          Ok(r.val), FALSE, 1)

\* A bug of read_and_materialize: the resolver is asked before the state is
\* looked at, also for an aggregator that knows its value.
read_and_materialize_NoEarlyReturn(agg, resolver) ==
    IF ~resolver.found THEN Outcome(agg, extension_error, FALSE, 1)
    ELSE IF agg.state = "Data" THEN Outcome(agg, Ok(agg.value), FALSE, 1)
    ELSE IF agg.history = None THEN Outcome(agg, Ok(0), TRUE, 1)
    ELSE LET history == agg.history[1]
             hp == addition(resolver.value, history.max_positive, agg.limit)
             hn == subtraction(resolver.value, history.min_negative)
             r  == ApplyDelta(agg, resolver.value)
         IN  IF hp.err # "Ok" THEN Outcome(agg, hp, FALSE, 1)
             ELSE IF hn.err # "Ok" THEN Outcome(agg, hn, FALSE, 1)
             ELSE IF r.err # "Ok" THEN Outcome(agg, r, FALSE, 1)
             ELSE Outcome([agg EXCEPT !.value = r.val, !.state = "Data", !.history = None],
                          Ok(r.val), FALSE, 1)

\* A bug of read_and_materialize: a resolver that cannot answer is read as 0.
read_and_materialize_DefaultsBase(agg, resolver) ==
    IF agg.state = "Data" THEN Outcome(agg, Ok(agg.value), FALSE, 0)
    ELSE IF agg.history = None THEN Outcome(agg, Ok(0), TRUE, 1)
    ELSE LET value_from_storage == IF resolver.found THEN resolver.value ELSE 0
             history == agg.history[1]
             hp == addition(value_from_storage, history.max_positive, agg.limit)
             hn == subtraction(value_from_storage, history.min_negative)
             r  == ApplyDelta(agg, value_from_storage)
         IN  IF hp.err # "Ok" THEN Outcome(agg, hp, FALSE, 1)
             ELSE IF hn.err # "Ok" THEN Outcome(agg, hn, FALSE, 1)
             ELSE IF r.err # "Ok" THEN Outcome(agg, r, FALSE, 1)
             ELSE Outcome([agg EXCEPT !.value = r.val, !.state = "Data", !.history = None],
                          Ok(r.val), FALSE, 1)

\* A bug of read_and_materialize: the history is checked against
\* min_negative before max_positive.
read_and_materialize_SubtractionFirst(agg, resolver) ==
    IF agg.state = "Data" THEN Outcome(agg, Ok(agg.value), FALSE, 0)
    ELSE IF ~resolver.found THEN Outcome(agg, extension_error, FALSE, 1)
    ELSE IF agg.history = None THEN Outcome(agg, Ok(0), TRUE, 1)
    ELSE LET value_from_storage == resolver.value
             history == agg.history[1]
             hp == addition(value_from_storage, history.max_positive, agg.limit)
             hn == subtraction(value_from_storage, history.min_negative)
             r  == ApplyDelta(agg, value_from_storage)
         IN  IF hn.err # "Ok" THEN Outcome(agg, hn, FALSE, 1)
             ELSE IF hp.err # "Ok" THEN Outcome(agg, hp, FALSE, 1)
             ELSE IF r.err # "Ok" THEN Outcome(agg, r, FALSE, 1)
             ELSE Outcome([agg EXCEPT !.value = r.val, !.state = "Data", !.history = None],
                          Ok(r.val), FALSE, 1)

\* Aggregator::read_and_materialize; resolver is the resolver's answer for id.
read_and_materialize(agg, resolver) ==
    IF agg.state = "Data" THEN Outcome(agg, Ok(agg.value), FALSE, 0)
    ELSE IF ~resolver.found THEN Outcome(agg, extension_error, FALSE, 1)
    ELSE IF agg.history = None
         THEN \* debug_assert! / unwrap of a missing history
              Outcome(agg, Ok(0), TRUE, 1)
    ELSE LET value_from_storage == resolver.value
             history == agg.history[1]
             hp == addition(value_from_storage, history.max_positive, agg.limit)
             hn == subtraction(value_from_storage, history.min_negative)
             r  == ApplyDelta(agg, value_from_storage)
         IN  IF hp.err # "Ok" THEN Outcome(agg, hp, FALSE, 1)
             ELSE IF hn.err # "Ok" THEN Outcome(agg, hn, FALSE, 1)
             ELSE IF r.err # "Ok" THEN Outcome(agg, r, FALSE, 1)
             ELSE Outcome([agg EXCEPT !.value = r.val, !.state = "Data", !.history = None],
                          Ok(r.val), FALSE, 1)

(***************************************************************************)
(* AggregatorData, the registry of one transaction.                        *)
(***************************************************************************)
VARIABLES
    aggregators,            \* BTreeMap<AggregatorID, Aggregator>
    new_aggregators,        \* BTreeSet<AggregatorID>
    destroyed_aggregators,  \* BTreeSet<AggregatorID>
    id_counter,             \* AtomicU64
    panicked,               \* a call hit unreachable!() or unwrapped None
    call,                   \* the last call: its arguments and its result
    observed,               \* per delta instance: the signed running delta and its extremes
    trail,                  \* per id: was it created in this transaction, and where it
                            \* stands in a create / add, sub / remove run
                            \* (with what add and sub have summed up since the create)
    comm,                   \* sequences of add/sub calls run side by side on aggregators
                            \* of their own
    gen,                    \* callers of generate_id: those that share the counter, or
                            \* the owner and the ids issued to it
    arith                   \* operands and results of addition and subtraction

vars == << aggregators, new_aggregators, destroyed_aggregators, id_counter,
           panicked, call, observed, trail, comm, gen, arith >>

\* The registry's own variables, without the counter.
collections == << aggregators, new_aggregators, destroyed_aggregators,
                  panicked, call, observed, trail >>

\* The registry's own variables.
registry == << aggregators, new_aggregators, destroyed_aggregators, id_counter,
               panicked, call, observed, trail >>

NoCall == [op |-> "none", id |-> 0, arg |-> 0, enabled |-> TRUE,
           resolver |-> ResolveFailure, err |-> "Ok", ret |-> 0, resolver_calls |-> 0]

\* The aggregator get_aggregator inserts for an id it does not hold.
FreshDelta(limit) ==
    [value |-> 0, state |-> "PositiveDelta", limit |-> limit, history |-> Some(HistoryNew)]

\* A bug of create_new_aggregator: the new aggregator starts as a delta.
FreshData_AsDelta(limit) ==
    [value |-> 0, state |-> "PositiveDelta", limit |-> limit, history |-> Some(HistoryNew)]

\* The aggregator create_new_aggregator inserts.
FreshData(limit) ==
    [value |-> 0, state |-> "Data", limit |-> limit, history |-> None]

\* A bug of the map: an insert drops the other entries.
MapInsert_Alone(m, k, v) == [x \in {k} |-> v]

\* BTreeMap::insert and BTreeMap::remove.
MapInsert(m, k, v) == [x \in DOMAIN m \cup {k} |-> IF x = k THEN v ELSE m[x]]

MapRemove(m, k) == [x \in DOMAIN m \ {k} |-> m[x]]

\* The running signed delta of a fresh delta instance, with the largest
\* non-negative and the largest negative value it took.
ObservedNew == [delta |-> 0, max_seen |-> 0, min_seen |-> 0]

Observe(o, d) ==
    [delta |-> o.delta + d,
     max_seen |-> IF o.delta + d >= 0 /\ o.delta + d > o.max_seen THEN o.delta + d ELSE o.max_seen,
     min_seen |-> IF o.delta + d < 0 /\ -(o.delta + d) > o.min_seen THEN -(o.delta + d) ELSE o.min_seen]

\* AggregatorData::num_aggregators
num_aggregators(f) == Cardinality(DOMAIN f)

\* A bug of get_aggregator: insert in place of entry().or_insert_with().
entry_insert(f, k, v) == MapInsert(f, k, v)

\* BTreeMap::entry(k).or_insert(v): the map keeps the value it has for k.
entry_or_insert(f, k, v) == IF k \in DOMAIN f THEN f ELSE MapInsert(f, k, v)

\* Nothing is known of an id at the start of the transaction.
NoTrail ==
    [id \in AggregatorIDs \cup PairIDs |->
        [created |-> FALSE, run |-> "off", live |-> FALSE, sum |-> 0]]

\* The run of id, create_new_aggregator from a registry that does not know
\* id, then add and sub, then remove_aggregator: an add or sub that changed
\* the value, and the remove that ends the run.  While the aggregator that
\* was created is live (not removed since), sum is the signed sum of the
\* amounts of its successful add and sub calls.
Used(t, id, d) ==
    [t EXCEPT ![id].run = IF d # 0 /\ @ \in {"created", "used"} THEN "used" ELSE @,
              ![id].sum = IF t[id].live THEN @ + d ELSE @]

Removed(t, id) ==
    [t EXCEPT ![id].run = CASE @ = "created" -> "removed"
                            [] @ = "used" -> "removed_used"
                            [] OTHER -> "off",
              ![id].live = FALSE,
              ![id].sum = 0]

\* id appears in none of the three collections.
Untouched(id) ==
    /\ id \notin DOMAIN aggregators
    /\ id \notin new_aggregators
    /\ id \notin destroyed_aggregators

\* The side-by-side run is idle while the registry is exercised.
NoComm == [phase |-> "idle"]

\* No caller shares the counter while the registry is exercised by its owner.
NoGen == [phase |-> "idle"]

\* No arithmetic is run on its own while the registry is exercised.
NoArith == [phase |-> "idle"]

\* AggregatorData::default: empty collections, the counter at 0.
RegistryInit ==
    /\ aggregators = << >>
    /\ new_aggregators = {}
    /\ destroyed_aggregators = {}
    /\ id_counter = 0
    /\ panicked = FALSE
    /\ call = NoCall
    /\ observed = << >>
    /\ trail = NoTrail

Init ==
    /\ RegistryInit
    /\ comm = NoComm
    /\ gen = NoGen
    /\ arith = NoArith

\* A bug of get_aggregator: an entry inserted by a call that fails is taken
\* out again.
GetAggregator_RollsBack(id, limit, resolver, aggregator_enabled) ==
    /\ ~panicked
    /\ LET present  == id \in DOMAIN aggregators
           inserted == entry_or_insert(aggregators, id, FreshDelta(limit))
           obs      == IF present THEN observed ELSE MapInsert(observed, id, ObservedNew)
           r        == read_and_materialize(inserted[id], resolver)
       IN  IF aggregator_enabled
           THEN /\ aggregators' = inserted
                /\ observed' = obs
                /\ panicked' = FALSE
                /\ call' = [NoCall EXCEPT !.op = "get_aggregator", !.id = id, !.arg = limit]
           ELSE /\ aggregators' = IF r.err = "Ok" THEN [inserted EXCEPT ![id] = r.agg]
                                  ELSE aggregators
                /\ observed' = IF r.err # "Ok" THEN observed
                               ELSE IF r.agg.state = "Data" THEN MapRemove(obs, id) ELSE obs
                /\ panicked' = r.panic
                /\ call' = [op |-> "get_aggregator", id |-> id, arg |-> limit,
                            enabled |-> FALSE, resolver |-> resolver, err |-> r.err,
                            ret |-> r.val, resolver_calls |-> r.resolver_calls]
    /\ trail' = [trail EXCEPT ![id].run = "off"]
    /\ UNCHANGED << new_aggregators, destroyed_aggregators, id_counter, comm, gen, arith >>

\* AggregatorData::get_aggregator
GetAggregator(id, limit, resolver, aggregator_enabled) ==
    /\ ~panicked
    /\ LET present  == id \in DOMAIN aggregators
           inserted == entry_or_insert(aggregators, id, FreshDelta(limit))
           obs      == IF present THEN observed ELSE MapInsert(observed, id, ObservedNew)
           r        == read_and_materialize(inserted[id], resolver)
       IN  IF aggregator_enabled
           THEN /\ aggregators' = inserted
                /\ observed' = obs
                /\ panicked' = FALSE
                /\ call' = [NoCall EXCEPT !.op = "get_aggregator", !.id = id, !.arg = limit]
           ELSE /\ aggregators' = [inserted EXCEPT ![id] = r.agg]
                /\ observed' = IF r.agg.state = "Data" THEN MapRemove(obs, id) ELSE obs
                /\ panicked' = r.panic
                /\ call' = [op |-> "get_aggregator", id |-> id, arg |-> limit,
                            enabled |-> FALSE, resolver |-> resolver, err |-> r.err,
                            ret |-> r.val, resolver_calls |-> r.resolver_calls]
    /\ trail' = [trail EXCEPT ![id].run = "off"]
    /\ UNCHANGED << new_aggregators, destroyed_aggregators, id_counter, comm, gen, arith >>

\* AggregatorData::create_new_aggregator
CreateNewAggregator(id, limit) ==
    /\ ~panicked
    /\ aggregators' = MapInsert(aggregators, id, FreshData(limit))
    /\ new_aggregators' = new_aggregators \cup {id}
    /\ observed' = MapRemove(observed, id)
    /\ call' = [NoCall EXCEPT !.op = "create_new_aggregator", !.id = id, !.arg = limit]
    /\ trail' = [trail EXCEPT ![id] = [created |-> TRUE,
                                       run |-> IF Untouched(id) THEN "created" ELSE "off",
                                       live |-> TRUE, sum |-> 0]]
    /\ UNCHANGED << destroyed_aggregators, id_counter, panicked, comm, gen, arith >>

\* A bug of remove_aggregator: the id is marked destroyed also when it was
\* created in this transaction.
RemoveAggregator_AlwaysDestroys(id) ==
    /\ ~panicked
    /\ aggregators' = MapRemove(aggregators, id)
    /\ new_aggregators' = new_aggregators \ {id}
    /\ destroyed_aggregators' = destroyed_aggregators \cup {id}
    /\ observed' = MapRemove(observed, id)
    /\ call' = [NoCall EXCEPT !.op = "remove_aggregator", !.id = id]
    /\ trail' = Removed(trail, id)
    /\ UNCHANGED << id_counter, panicked, comm, gen, arith >>

\* A bug of remove_aggregator: the id stays in new_aggregators.
RemoveAggregator_KeepsNew(id) ==
    /\ ~panicked
    /\ aggregators' = MapRemove(aggregators, id)
    /\ IF id \in new_aggregators
       THEN UNCHANGED << new_aggregators, destroyed_aggregators >>
       ELSE /\ destroyed_aggregators' = destroyed_aggregators \cup {id}
            /\ UNCHANGED new_aggregators
    /\ observed' = MapRemove(observed, id)
    /\ call' = [NoCall EXCEPT !.op = "remove_aggregator", !.id = id]
    /\ trail' = Removed(trail, id)
    /\ UNCHANGED << id_counter, panicked, comm, gen, arith >>

\* AggregatorData::remove_aggregator
RemoveAggregator(id) ==
    /\ ~panicked
    /\ aggregators' = MapRemove(aggregators, id)
    /\ IF id \in new_aggregators
       THEN /\ new_aggregators' = new_aggregators \ {id}
            /\ UNCHANGED destroyed_aggregators
       ELSE /\ destroyed_aggregators' = destroyed_aggregators \cup {id}
            /\ UNCHANGED new_aggregators
    /\ observed' = MapRemove(observed, id)
    /\ call' = [NoCall EXCEPT !.op = "remove_aggregator", !.id = id]
    /\ trail' = Removed(trail, id)
    /\ UNCHANGED << id_counter, panicked, comm, gen, arith >>

\* AggregatorData::generate_id, called by the one owner of the registry.
GenerateId ==
    /\ ~panicked
    /\ id_counter < MaxCounter
    /\ id_counter' = id_counter + 1
    /\ call' = [NoCall EXCEPT !.op = "generate_id", !.ret = id_counter + 1]
    /\ UNCHANGED << aggregators, new_aggregators, destroyed_aggregators, panicked, observed,
                    trail, comm, gen, arith >>

\* Aggregator::add on the instance the registry holds for id.
Add(id, value) ==
    /\ ~panicked
    /\ id \in DOMAIN aggregators
    /\ LET r == add(aggregators[id], value)
       IN  /\ aggregators' = [aggregators EXCEPT ![id] = r.agg]
           /\ panicked' = r.panic
           /\ call' = [NoCall EXCEPT !.op = "add", !.id = id, !.arg = value, !.err = r.err]
           /\ observed' = IF r.err = "Ok" /\ id \in DOMAIN observed
                          THEN [observed EXCEPT ![id] = Observe(@, value)]
                          ELSE observed
           /\ trail' = IF r.err = "Ok" THEN Used(trail, id, value) ELSE trail
    /\ UNCHANGED << new_aggregators, destroyed_aggregators, id_counter, comm, gen, arith >>

\* Aggregator::sub on the instance the registry holds for id.
Sub(id, value) ==
    /\ ~panicked
    /\ id \in DOMAIN aggregators
    /\ LET r == sub(aggregators[id], value)
       IN  /\ aggregators' = [aggregators EXCEPT ![id] = r.agg]
           /\ panicked' = r.panic
           /\ call' = [NoCall EXCEPT !.op = "sub", !.id = id, !.arg = value, !.err = r.err]
           /\ observed' = IF r.err = "Ok" /\ id \in DOMAIN observed
                          THEN [observed EXCEPT ![id] = Observe(@, -value)]
                          ELSE observed
           /\ trail' = IF r.err = "Ok" THEN Used(trail, id, -value) ELSE trail
    /\ UNCHANGED << new_aggregators, destroyed_aggregators, id_counter, comm, gen, arith >>

\* Aggregator::read_and_materialize on the instance the registry holds for id.
ReadAndMaterialize(id, resolver) ==
    /\ ~panicked
    /\ id \in DOMAIN aggregators
    /\ LET r == read_and_materialize(aggregators[id], resolver)
       IN  /\ aggregators' = [aggregators EXCEPT ![id] = r.agg]
           /\ panicked' = r.panic
           /\ call' = [op |-> "read_and_materialize", id |-> id, arg |-> 0,
                       enabled |-> TRUE, resolver |-> resolver, err |-> r.err,
                       ret |-> r.val, resolver_calls |-> r.resolver_calls]
           /\ observed' = IF r.agg.state = "Data" THEN MapRemove(observed, id) ELSE observed
    /\ trail' = [trail EXCEPT ![id].run = "off"]
    /\ UNCHANGED << new_aggregators, destroyed_aggregators, id_counter, comm, gen, arith >>

Next ==
    \/ \E id \in AggregatorIDs, limit \in Limits, resolver \in ResolverAnswers,
          aggregator_enabled \in BOOLEAN :
            GetAggregator(id, limit, resolver, aggregator_enabled)
    \/ \E id \in AggregatorIDs, limit \in Limits : CreateNewAggregator(id, limit)
    \/ \E id \in AggregatorIDs : RemoveAggregator(id)
    \/ GenerateId
    \/ \E id \in AggregatorIDs, value \in Deltas : Add(id, value)
    \/ \E id \in AggregatorIDs, value \in Deltas : Sub(id, value)
    \/ \E id \in AggregatorIDs, resolver \in ResolverAnswers : ReadAndMaterialize(id, resolver)

Spec == Init /\ [][Next]_vars

(***************************************************************************)
(* Two orderings of one multiset of add/sub calls, each applied to a fresh *)
(* PositiveDelta(0) aggregator of the same limit and then read against the *)
(* same base (test_commutative, and the delta validation described at      *)
(* History).  The orderings drawn are those in which the value relative to *)
(* the base stays within [0, limit].                                       *)
(***************************************************************************)
\* Longest sequence of calls applied.
MaxOps == 3

Ops == [kind : {"add", "sub"}, amount : Deltas]

OpSequences == UNION { [1 .. n -> Ops] : n \in 0 .. MaxOps }

\* The signed amount of a call, and the signed sum of the first k calls.
Signed(op) == IF op.kind = "add" THEN op.amount ELSE -op.amount

RECURSIVE PrefixSum(_, _)
PrefixSum(seq, k) == IF k = 0 THEN 0 ELSE PrefixSum(seq, k - 1) + Signed(seq[k])

\* The value relative to base is within [0, limit] at the start and after
\* every call of seq.
StaysInRange(base, limit, seq) ==
    \A k \in 0 .. Len(seq) : base + PrefixSum(seq, k) \in 0 .. limit

Reordered(seq, p) == [k \in 1 .. Len(seq) |-> seq[p[k]]]

\* aggregator.add(amount) or aggregator.sub(amount)
Apply(agg, op) == IF op.kind = "add" THEN add(agg, op.amount) ELSE sub(agg, op.amount)

InitComm ==
    /\ RegistryInit
    /\ \E limit \in Limits, base \in StoredValues, seqA \in OpSequences :
          /\ StaysInRange(base, limit, seqA)
          /\ \E p \in Permutations(1 .. Len(seqA)) :
                /\ StaysInRange(base, limit, Reordered(seqA, p))
                /\ comm = [phase |-> "apply", limit |-> limit, base |-> base,
                           seqA |-> seqA, seqB |-> Reordered(seqA, p), done |-> 0,
                           aggA |-> FreshDelta(limit), aggB |-> FreshDelta(limit),
                           failed |-> FALSE, retA |-> Ok(0), retB |-> Ok(0)]
    /\ gen = NoGen
    /\ arith = NoArith

\* The next call of each ordering, on its own aggregator.
CommApply ==
    /\ comm.phase = "apply"
    /\ comm.done < Len(comm.seqA)
    /\ LET k  == comm.done + 1
           rA == Apply(comm.aggA, comm.seqA[k])
           rB == Apply(comm.aggB, comm.seqB[k])
       IN  comm' = [comm EXCEPT !.done = k, !.aggA = rA.agg, !.aggB = rB.agg,
                                !.failed = @ \/ rA.err # "Ok" \/ rB.err # "Ok"
                                             \/ rA.panic \/ rB.panic]
    /\ UNCHANGED << registry, gen, arith >>

\* read_and_materialize of both aggregators against the base.
CommMaterialize ==
    /\ comm.phase = "apply"
    /\ comm.done = Len(comm.seqA)
    /\ LET rA == read_and_materialize(comm.aggA, Resolved(comm.base))
           rB == read_and_materialize(comm.aggB, Resolved(comm.base))
       IN  comm' = [comm EXCEPT !.phase = "read", !.aggA = rA.agg, !.aggB = rB.agg,
                                !.retA = [err |-> rA.err, val |-> rA.val],
                                !.retB = [err |-> rB.err, val |-> rB.val]]
    /\ UNCHANGED << registry, gen, arith >>

NextComm == CommApply \/ CommMaterialize

SpecComm == InitComm /\ [][NextComm]_vars

(***************************************************************************)
(* Properties of the aggregator and of the registry.                       *)
(***************************************************************************)
\* The aggregators the registry holds.
Held == DOMAIN aggregators

IsDelta(agg) == agg.state \in {"PositiveDelta", "NegativeDelta"}

\* The last call was a method of Aggregator on the instance of call.id.
AggregatorCalls == {"add", "sub", "read_and_materialize"}

\* C1: in every reachable state, whatever call led to it and whatever the
\* state tag (Data, PositiveDelta, NegativeDelta), every aggregator's value
\* is at most its limit.
C1_ValueAtMostLimit ==
    \A id \in Held : aggregators[id].value <= aggregators[id].limit

\* C2: an add, sub or read_and_materialize that returns an error leaves the
\* aggregator (value, state, limit, history) as it was before the call, and
\* the aggregator is not poisoned: nothing panicked.
C2_FailedCallChangesNothing ==
    [][ (call'.op \in AggregatorCalls /\ call'.err # "Ok")
            => (aggregators' = aggregators /\ ~panicked') ]_vars

\* A read_and_materialize has just failed with Underflow on a negative delta
\* whose history holds both a positive and a negative excursion.
C2_Witness ==
    /\ call.op = "read_and_materialize" /\ call.err = "Underflow" /\ call.id \in Held
    /\ aggregators[call.id].state = "NegativeDelta"
    /\ aggregators[call.id].history[1].max_positive > 0
    /\ aggregators[call.id].history[1].min_negative > aggregators[call.id].value

\* The step is a read_and_materialize of the delta-state aggregator of id for
\* which the resolver answered with a base.
ReadsDelta(id) ==
    /\ call'.op = "read_and_materialize" /\ call'.id = id
    /\ id \in Held /\ IsDelta(aggregators[id])
    /\ call'.resolver.found

\* What a successful read_and_materialize of agg against base v leaves.
Materialized(agg, v, after, ret) ==
    /\ ret = (IF agg.state = "PositiveDelta" THEN v + agg.value ELSE v - agg.value)
    /\ after = [agg EXCEPT !.value = ret, !.state = "Data", !.history = None]

\* C3 as stated: read_and_materialize of a delta against base v succeeds iff
\* v + max_positive <= limit and min_negative <= v, fails with Overflow when
\* v + max_positive > limit and with Underflow when v < min_negative; on
\* success it returns v + value or v - value, sets the state to Data and drops
\* the history.
C3_AsStated ==
    [][ \A id \in AggregatorIDs : ReadsDelta(id) =>
          LET agg == aggregators[id]
              h   == agg.history[1]
              v   == call'.resolver.value
          IN  /\ (call'.err = "Ok") <=> (v + h.max_positive <= agg.limit /\ h.min_negative <= v)
              /\ (v + h.max_positive > agg.limit) => call'.err = "Overflow"
              /\ (v < h.min_negative) => call'.err = "Underflow"
              /\ (call'.err = "Ok") => Materialized(agg, v, aggregators'[id], call'.ret) ]_vars

\* C3, amended: as C3, but Underflow is the error when v < min_negative and
\* v + max_positive <= limit; when both checks fail the error is Overflow.
C3_HistoryValidation ==
    [][ \A id \in AggregatorIDs : ReadsDelta(id) =>
          LET agg == aggregators[id]
              h   == agg.history[1]
              v   == call'.resolver.value
          IN  /\ (call'.err = "Ok") <=> (v + h.max_positive <= agg.limit /\ h.min_negative <= v)
              /\ (v + h.max_positive > agg.limit) => call'.err = "Overflow"
              /\ (v < h.min_negative /\ v + h.max_positive <= agg.limit)
                    => call'.err = "Underflow"
              /\ (call'.err = "Ok") => Materialized(agg, v, aggregators'[id], call'.ret) ]_vars

\* A read_and_materialize has just failed with Overflow on a positive delta
\* that alone would have fitted: the base plus the current value is within
\* the limit, the base plus the recorded maximum is not.
C3_Witness ==
    /\ call.op = "read_and_materialize" /\ call.err = "Overflow" /\ call.id \in Held
    /\ call.resolver.found
    /\ LET agg == aggregators[call.id]
       IN  /\ agg.state = "PositiveDelta"
           /\ call.resolver.value + agg.value <= agg.limit
           /\ call.resolver.value + agg.history[1].max_positive > agg.limit
           /\ call.resolver.value >= agg.history[1].min_negative

\* C4: for two orderings of the same multiset of add/sub calls, each applied
\* to a fresh PositiveDelta(0) aggregator of the same limit, such that the
\* value relative to the base stays within [0, limit] in both, every call
\* succeeds and read_and_materialize against the base succeeds and returns
\* the same value in both.
C4_Commutativity ==
    (/\ comm.phase # "idle"
     /\ StaysInRange(comm.base, comm.limit, comm.seqA)
     /\ StaysInRange(comm.base, comm.limit, comm.seqB))
        => /\ ~comm.failed
           /\ comm.phase = "read" =>
                 /\ comm.retA.err = "Ok" /\ comm.retB.err = "Ok"
                 /\ comm.retA.val = comm.retB.val

\* Both orderings of a longest sequence have been read; one went negative
\* first, the other positive first.
C4_Witness ==
    /\ comm.phase = "read"
    /\ Len(comm.seqA) = MaxOps
    /\ comm.seqA[1].kind = "sub" /\ comm.seqA[1].amount > 0
    /\ comm.seqB[1].kind = "add" /\ comm.seqB[1].amount > 0
    /\ comm.retA.err = "Ok" /\ comm.retA.val = comm.retB.val

\* C5: the history of a delta that started as PositiveDelta(0) is the
\* envelope of its running signed delta: max_positive is the largest
\* non-negative value and min_negative the largest negative magnitude the
\* delta took after any call.
C5_HistoryIsEnvelope ==
    \A id \in Held : IsDelta(aggregators[id]) =>
        /\ id \in DOMAIN observed
        /\ aggregators[id].history # None
        /\ aggregators[id].history[1].max_positive = observed[id].max_seen
        /\ aggregators[id].history[1].min_negative = observed[id].min_seen

\* A delta back at zero after an excursion to both sides.
C5_Witness ==
    /\ call.op \in {"add", "sub"} /\ call.err = "Ok" /\ call.id \in DOMAIN observed
    /\ observed[call.id].delta = 0
    /\ observed[call.id].max_seen = MaxLimit
    /\ observed[call.id].min_seen = 1

\* C6: an aggregator has a history exactly when it is in a delta state, so
\* the Data branch of record and of read_and_materialize (unreachable!) and
\* the unwrap of the history never panic.
C6_HistoryIffDelta ==
    /\ ~panicked
    /\ \A id \in Held : (aggregators[id].history # None) <=> IsDelta(aggregators[id])

\* A delta with a recorded history has just been materialized: it is in Data
\* state with no history.
C6_Witness ==
    /\ call.op = "read_and_materialize" /\ call.err = "Ok" /\ call.resolver_calls = 1
    /\ call.id \in Held
    /\ aggregators[call.id].state = "Data"
    /\ aggregators[call.id].history = None
    /\ aggregators[call.id].value > 0

\* C7: in every delta state both extremes of the history are at most the
\* limit.
C7_HistoryAtMostLimit ==
    \A id \in Held : IsDelta(aggregators[id]) =>
        /\ aggregators[id].history[1].max_positive <= aggregators[id].limit
        /\ aggregators[id].history[1].min_negative <= aggregators[id].limit

\* C8: an add, sub or read_and_materialize on an aggregator in Data state,
\* failing or not, leaves it in Data state.
C8_DataIsTerminal ==
    [][ \A id \in Held :
          (call'.op \in AggregatorCalls /\ call'.id = id /\ aggregators[id].state = "Data")
              => (id \in DOMAIN aggregators' /\ aggregators'[id].state = "Data") ]_vars

\* A sub has just failed with Underflow on an aggregator that knows its
\* value, which it read from storage.
C8_Witness ==
    /\ call.op = "sub" /\ call.err = "Underflow" /\ call.id \in Held
    /\ aggregators[call.id].state = "Data"
    /\ aggregators[call.id].value > 0
    /\ call.id \notin new_aggregators

\* The call read the aggregator successfully: read_and_materialize, or
\* get_aggregator with the delta feature disabled.
SuccessfulRead(c) ==
    /\ c.err = "Ok"
    /\ \/ c.op = "read_and_materialize"
       \/ c.op = "get_aggregator" /\ ~c.enabled

\* C9: a read_and_materialize that directly follows a successful one on the
\* same instance returns the same value, does not call the resolver (so it
\* succeeds whatever the resolver would answer) and changes nothing.
C9_IdempotentMaterialization ==
    [][ (SuccessfulRead(call) /\ call'.op = "read_and_materialize" /\ call'.id = call.id)
            => /\ call'.err = "Ok"
               /\ call'.ret = call.ret
               /\ call'.resolver_calls = 0
               /\ aggregators' = aggregators ]_vars

\* A read_and_materialize has just succeeded without the resolver, which
\* would have failed, on an aggregator that an earlier read moved from a
\* delta to Data (it is not one created in this transaction).
C9_Witness ==
    /\ call.op = "read_and_materialize" /\ call.err = "Ok" /\ call.resolver_calls = 0
    /\ ~call.resolver.found
    /\ call.id \in Held /\ call.id \notin new_aggregators
    /\ aggregators[call.id].state = "Data"
    /\ call.ret = aggregators[call.id].value /\ call.ret > 0

\* C10: add(delta) by state.  Data and PositiveDelta: value + delta with the
\* state kept when that is at most the limit, else Overflow.  NegativeDelta
\* of magnitude x: never fails; PositiveDelta delta - x when x <= delta,
\* NegativeDelta x - delta when x > delta.
C10_AddTransitions ==
    [][ \A id \in Held : (call'.op = "add" /\ call'.id = id) =>
          LET agg   == aggregators[id]
              after == aggregators'[id]
              delta == call'.arg
          IN  IF agg.state \in {"Data", "PositiveDelta"}
              THEN IF agg.value + delta <= agg.limit
                   THEN /\ call'.err = "Ok"
                        /\ after.value = agg.value + delta
                        /\ after.state = agg.state
                   ELSE call'.err = "Overflow"
              ELSE /\ call'.err = "Ok"
                   /\ IF agg.value <= delta
                      THEN after.state = "PositiveDelta" /\ after.value = delta - agg.value
                      ELSE after.state = "NegativeDelta" /\ after.value = agg.value - delta ]_vars

\* An add of a positive amount has just brought a negative delta of the same
\* magnitude to PositiveDelta 0.
C10_Witness ==
    /\ call.op = "add" /\ call.err = "Ok" /\ call.arg > 0 /\ call.id \in Held
    /\ aggregators[call.id].state = "PositiveDelta"
    /\ aggregators[call.id].value = 0
    /\ aggregators[call.id].history[1].min_negative = call.arg

\* C11: sub(delta) by state.  Data: value - delta when delta <= value, else
\* Underflow.  PositiveDelta x: PositiveDelta x - delta when x >= delta; when
\* x < delta, Underflow if delta exceeds the limit, else NegativeDelta
\* delta - x.  NegativeDelta: value + delta when that is at most the limit,
\* else Overflow.  So a fresh PositiveDelta 0 goes to NegativeDelta delta when
\* delta <= limit and fails with Underflow when delta > limit.
C11_SubTransitions ==
    [][ \A id \in Held : (call'.op = "sub" /\ call'.id = id) =>
          LET agg   == aggregators[id]
              after == aggregators'[id]
              delta == call'.arg
          IN  CASE agg.state = "Data" ->
                     IF delta <= agg.value
                     THEN /\ call'.err = "Ok"
                          /\ after.state = "Data" /\ after.value = agg.value - delta
                     ELSE call'.err = "Underflow"
                [] agg.state = "PositiveDelta" ->
                     IF agg.value >= delta
                     THEN /\ call'.err = "Ok"
                          /\ after.state = "PositiveDelta"
                          /\ after.value = agg.value - delta
                     ELSE IF delta > agg.limit
                     THEN call'.err = "Underflow"
                     ELSE /\ call'.err = "Ok"
                          /\ after.state = "NegativeDelta"
                          /\ after.value = delta - agg.value
                [] agg.state = "NegativeDelta" ->
                     IF agg.value + delta <= agg.limit
                     THEN /\ call'.err = "Ok"
                          /\ after.state = "NegativeDelta"
                          /\ after.value = agg.value + delta
                     ELSE call'.err = "Overflow" ]_vars

\* A sub of more than the limit has just failed with Underflow on a fresh
\* PositiveDelta 0 of limit 1.
C11_Witness ==
    /\ call.op = "sub" /\ call.err = "Underflow" /\ call.arg = 2 /\ call.id \in Held
    /\ aggregators[call.id] = FreshDelta(1)

\* The call of the step materializes the entry of id: a read_and_materialize,
\* or a get_aggregator with aggregator_enabled = false.
Materializes(id) ==
    /\ call'.id = id
    /\ \/ call'.op = "read_and_materialize" /\ id \in Held
       \/ call'.op = "get_aggregator" /\ ~call'.enabled

\* The entry a materializing call works on: the one held, or the one that
\* get_aggregator inserts for an absent id.
EntryOf(id) ==
    IF id \in Held THEN aggregators[id] ELSE FreshDelta(call'.arg)

\* C12: when the resolver cannot answer, read_and_materialize on a delta
\* instance, and get_aggregator with aggregator_enabled = false on an id whose
\* instance is not yet Data, fail with ResolutionFailed, an error other than
\* Overflow and Underflow; add and sub never fail with ResolutionFailed.
C12_ResolutionFailed ==
    [][ /\ \A id \in AggregatorIDs :
             (Materializes(id) /\ IsDelta(EntryOf(id)) /\ ~call'.resolver.found)
                => /\ call'.err = "ResolutionFailed"
                   /\ call'.err \notin {"Overflow", "Underflow", "Ok"}
        /\ call'.op \in {"add", "sub"} => call'.err # "ResolutionFailed" ]_vars

\* A get_aggregator with aggregator_enabled = false has just failed with
\* ResolutionFailed on an instance that carries a negative delta.
C12_Witness ==
    /\ call.op = "get_aggregator" /\ ~call.enabled /\ call.err = "ResolutionFailed"
    /\ call.id \in Held
    /\ aggregators[call.id].state = "NegativeDelta"

\* The pending delta of an entry, signed; nothing is pending on Data.
Pending(agg) ==
    CASE agg.state = "Data" -> 0
      [] agg.state = "PositiveDelta" -> agg.value
      [] agg.state = "NegativeDelta" -> 0 - agg.value

\* The call of the step is a successful get_aggregator(id, _, _, false).
EagerGet(id) ==
    /\ call'.op = "get_aggregator" /\ call'.id = id
    /\ ~call'.enabled /\ call'.err = "Ok"

\* add and sub on a Data instance of a step are checked against [0, limit]
\* and keep the Data state.
DirectlyChecked(id) ==
    LET agg   == aggregators[id]
        after == aggregators'[id]
        delta == call'.arg
    IN  /\ after.state = "Data" /\ after.history = None
        /\ call'.op = "add" =>
              IF agg.value + delta <= agg.limit
              THEN call'.err = "Ok" /\ after.value = agg.value + delta
              ELSE call'.err = "Overflow" /\ after = agg
        /\ call'.op = "sub" =>
              IF delta <= agg.value
              THEN call'.err = "Ok" /\ after.value = agg.value - delta
              ELSE call'.err = "Underflow" /\ after = agg

\* C13 as stated: whenever get_aggregator(.., aggregator_enabled = false)
\* succeeds, the instance is Data with no history and its value is the
\* resolved base plus the delta pending on the entry (the resolved base for an
\* id not held before).
C13_AsStated ==
    [][ \A id \in AggregatorIDs : EagerGet(id) =>
          LET after == aggregators'[id]
          IN  /\ after.state = "Data" /\ after.history = None
              /\ call'.resolver.found
              /\ after.value = call'.resolver.value + Pending(EntryOf(id)) ]_vars

\* C13: whenever get_aggregator(.., aggregator_enabled = false) succeeds,
\* the instance is Data with no history.  For an entry that was absent or a
\* delta its value is the resolved base plus the pending delta; an entry that
\* was Data already keeps its value and the resolver is not called.  add and
\* sub that follow on it are checked against [0, limit] and keep it Data.
C13_EagerGetMaterializes ==
    [][ \A id \in AggregatorIDs :
          /\ EagerGet(id) =>
                LET entry == EntryOf(id)
                    after == aggregators'[id]
                IN  /\ after.state = "Data" /\ after.history = None
                    /\ after.limit = entry.limit
                    /\ call'.ret = after.value
                    /\ IF IsDelta(entry)
                       THEN /\ call'.resolver.found /\ call'.resolver_calls = 1
                            /\ after.value = call'.resolver.value + Pending(entry)
                       ELSE /\ call'.resolver_calls = 0
                            /\ after.value = entry.value
          /\ ( /\ SuccessfulRead(call) /\ call.op = "get_aggregator" /\ call.id = id
               /\ call'.op \in {"add", "sub"} /\ call'.id = id )
                => DirectlyChecked(id) ]_vars

\* A get_aggregator with aggregator_enabled = false has just materialized a
\* nonzero pending delta against the resolved base.
C13_Witness ==
    /\ call.op = "get_aggregator" /\ ~call.enabled /\ call.err = "Ok"
    /\ call.resolver_calls = 1 /\ call.resolver.found
    /\ call.ret # call.resolver.value
    /\ call.id \in Held
    /\ aggregators[call.id].state = "Data"
    /\ aggregators[call.id].value = call.ret

\* C14: get_aggregator(id, limit, .., aggregator_enabled = true) on an id not
\* held inserts value 0, PositiveDelta, the given limit and history (0, 0);
\* on an id that is held it leaves the instance as it is, also when the limit
\* argument differs from the instance's limit.
C14_LazyGet ==
    [][ \A id \in AggregatorIDs :
          (call'.op = "get_aggregator" /\ call'.id = id /\ call'.enabled) =>
             /\ call'.err = "Ok"
             /\ id \in DOMAIN aggregators'
             /\ IF id \in Held
                THEN aggregators'[id] = aggregators[id]
                ELSE aggregators'[id] =
                       [value |-> 0, state |-> "PositiveDelta", limit |-> call'.arg,
                        history |-> << [max_positive |-> 0, min_negative |-> 0] >>] ]_vars

\* A get_aggregator with aggregator_enabled = true and a limit other than the
\* instance's has just returned an instance that carries a delta.
C14_Witness ==
    /\ call.op = "get_aggregator" /\ call.enabled /\ call.id \in Held
    /\ aggregators[call.id].limit # call.arg
    /\ aggregators[call.id].value > 0
    /\ IsDelta(aggregators[call.id])

\* C15: create_new_aggregator(id, limit) always leaves id mapped to value 0,
\* Data, the given limit and no history, with id in new_aggregators, whatever
\* entry id had before.
C15_CreateOverwrites ==
    [][ \A id \in AggregatorIDs :
          (call'.op = "create_new_aggregator" /\ call'.id = id) =>
             /\ id \in DOMAIN aggregators'
             /\ aggregators'[id] =
                   [value |-> 0, state |-> "Data", limit |-> call'.arg, history |-> << >>]
             /\ id \in new_aggregators' ]_vars

\* A create_new_aggregator has just replaced an entry that id had in the map.
C15_Witness ==
    /\ call.op = "create_new_aggregator" /\ call.id \in Held
    /\ trail[call.id].run = "off"
    /\ call.id \notin destroyed_aggregators
    /\ call.id \in new_aggregators
    /\ aggregators[call.id] = FreshData(call.arg)

\* C16: after remove_aggregator(id), id is not a key of the map; if id was in
\* new_aggregators it is taken out of it and destroyed_aggregators is
\* unchanged, otherwise id is added to destroyed_aggregators and
\* new_aggregators is unchanged.  A run that starts where id is in none of
\* the three collections, create_new_aggregator(id, _), then add and sub on
\* it, then remove_aggregator(id), ends with id in none of them again.
C16_RemoveAggregator ==
    [][ \A id \in AggregatorIDs :
          (call'.op = "remove_aggregator" /\ call'.id = id) =>
             /\ id \notin DOMAIN aggregators'
             /\ \A other \in DOMAIN aggregators \ {id} :
                   /\ other \in DOMAIN aggregators'
                   /\ aggregators'[other] = aggregators[other]
             /\ IF id \in new_aggregators
                THEN /\ new_aggregators' = new_aggregators \ {id}
                     /\ destroyed_aggregators' = destroyed_aggregators
                ELSE /\ destroyed_aggregators' = destroyed_aggregators \cup {id}
                     /\ new_aggregators' = new_aggregators
             /\ trail'[id].run \in {"removed", "removed_used"} =>
                   /\ id \notin DOMAIN aggregators'
                   /\ id \notin new_aggregators'
                   /\ id \notin destroyed_aggregators' ]_vars

\* A remove_aggregator has just ended a run in which the created aggregator
\* was changed by add or sub.
C16_Witness ==
    /\ call.op = "remove_aggregator"
    /\ trail[call.id].run = "removed_used"
    /\ Untouched(call.id)

\* C17: no id of destroyed_aggregators is in new_aggregators or a key of the
\* map of aggregators, after any sequence of get_aggregator,
\* create_new_aggregator and remove_aggregator calls.
C17_Disjoint ==
    \A id \in destroyed_aggregators :
        id \notin new_aggregators /\ id \notin DOMAIN aggregators

\* C18: an id that was created in this transaction is never in
\* destroyed_aggregators, however often remove_aggregator is called on it.
C18_DestroyedNotCreated ==
    \A id \in destroyed_aggregators : ~trail[id].created

\* C19: every id of new_aggregators is a key of the map of aggregators and
\* was created in this transaction.
C19_NewIsLive ==
    \A id \in new_aggregators :
        id \in DOMAIN aggregators /\ trail[id].created

\* A get_aggregator has just returned an aggregator that was created in this
\* transaction and changed since.
C19_Witness ==
    /\ call.op = "get_aggregator" /\ call.id \in new_aggregators
    /\ call.id \in Held
    /\ aggregators[call.id].value > 0

(***************************************************************************)
(* generate_id with callers that share the counter: the fetch_add and the *)
(* load are two atomic operations, and other callers run between them.    *)
(***************************************************************************)
MaxIssued == 3

Callers == {"a", "b", "c"}

InitGen ==
    /\ RegistryInit
    /\ comm = NoComm
    /\ arith = NoArith
    /\ gen = [phase |-> "run",
              pc |-> [t \in Callers |-> "idle"],
              incremented |-> [t \in Callers |-> 0],
              ret |-> [t \in Callers |-> 0]]

\* self.id_counter.fetch_add(1, Ordering::SeqCst)
GenFetchAdd(t) ==
    /\ gen.phase = "run"
    /\ gen.pc[t] = "idle"
    /\ id_counter < MaxIssued
    /\ id_counter' = id_counter + 1
    /\ gen' = [gen EXCEPT !.pc[t] = "fetched", !.incremented[t] = id_counter + 1]
    /\ UNCHANGED << collections, comm, arith >>

\* self.id_counter.load(Ordering::SeqCst), the value generate_id returns
GenLoad(t) ==
    /\ gen.phase = "run"
    /\ gen.pc[t] = "fetched"
    /\ gen' = [gen EXCEPT !.pc[t] = "idle", !.ret[t] = id_counter]
    /\ UNCHANGED << id_counter, collections, comm, arith >>

NextGen ==
    \/ \E t \in Callers : GenFetchAdd(t)
    \/ \E t \in Callers : GenLoad(t)

SpecGen == InitGen /\ [][NextGen]_vars

\* C20: generate_id increments id_counter and returns the post-increment
\* value as one atomic step: a call returns the value its own increment
\* produced, and two calls that interleave never return the same value.
C20_GenerateIdAtomic ==
    gen.phase = "run" =>
        \A t \in Callers :
            gen.pc[t] = "idle" =>
               /\ gen.ret[t] = gen.incremented[t]
               /\ \A u \in Callers \ {t} :
                     (gen.pc[u] = "idle" /\ gen.ret[t] > 0) => gen.ret[u] # gen.ret[t]

(***************************************************************************)
(* generate_id called in sequence by the owner of a registry built with    *)
(* new(c).  The counter is an unsigned integer of CounterBits bits and     *)
(* fetch_add wraps around at its end.                                      *)
(***************************************************************************)
\* Width of the counter (64 in the source).
CounterBits == 4

CounterRange == 2 ^ CounterBits

\* AggregatorData::new(id_counter)
InitIds ==
    /\ aggregators = << >>
    /\ new_aggregators = {}
    /\ destroyed_aggregators = {}
    /\ panicked = FALSE
    /\ call = NoCall
    /\ observed = << >>
    /\ trail = NoTrail
    /\ comm = NoComm
    /\ arith = NoArith
    /\ \E c \in 0 .. (CounterRange - 1) :
          /\ id_counter = c
          /\ gen = [phase |-> "owner", start |-> c, issued |-> << >>]

\* A bug of generate_id: the value before the increment is returned.
GenerateIdOwned_ReturnsOld ==
    /\ gen.phase = "owner"
    /\ Len(gen.issued) < CounterRange
    /\ id_counter' = (id_counter + 1) % CounterRange
    /\ gen' = [gen EXCEPT !.issued = Append(@, id_counter)]
    /\ UNCHANGED << collections, comm, arith >>

\* AggregatorData::generate_id with no other caller between the fetch_add
\* and the load; issued lists the values returned so far.
GenerateIdOwned ==
    /\ gen.phase = "owner"
    /\ Len(gen.issued) < CounterRange
    /\ id_counter' = (id_counter + 1) % CounterRange
    /\ gen' = [gen EXCEPT !.issued = Append(@, id_counter')]
    /\ UNCHANGED << collections, comm, arith >>

NextIds == GenerateIdOwned

SpecIds == InitIds /\ [][NextIds]_vars

\* C21: for a registry built with new(c), the k-th generate_id in sequence
\* returns c + k, which is greater than every value returned before it, as
\* long as c + k is within the range of the counter; so no id is issued
\* twice within that range.
C21_MonotonicIds ==
    gen.phase = "owner" =>
        \A k \in 1 .. Len(gen.issued) :
            gen.start + k < CounterRange =>
               /\ gen.issued[k] = gen.start + k
               /\ \A j \in 1 .. (k - 1) : gen.issued[j] < gen.issued[k]

\* A registry built with new(c), c > 0, has issued ids up to the last value
\* of the counter's range.
C21_Witness ==
    /\ gen.phase = "owner" /\ gen.start > 0
    /\ Len(gen.issued) >= 2
    /\ gen.issued[Len(gen.issued)] = CounterRange - 1
    /\ gen.issued[1] = gen.start + 1

\* C22: the resolver is called only by a read_and_materialize of an
\* aggregator in PositiveDelta or NegativeDelta state, directly or through
\* get_aggregator with aggregator_enabled = false, and once in such a call;
\* no other call, and no read_and_materialize of a Data aggregator, calls it.
C22_ResolverDiscipline ==
    [][ /\ call'.resolver_calls \in {0, 1}
        /\ call'.resolver_calls = 1 <=>
              \E id \in AggregatorIDs : Materializes(id) /\ IsDelta(EntryOf(id))
        /\ call'.op \in {"add", "sub", "create_new_aggregator", "remove_aggregator",
                         "generate_id"} => call'.resolver_calls = 0
        /\ (call'.op = "get_aggregator" /\ call'.enabled) => call'.resolver_calls = 0 ]_vars

\* A get_aggregator with aggregator_enabled = false has just returned an
\* aggregator that was materialized before, without a call of the resolver,
\* which had no value to give.
C22_Witness ==
    /\ call.op = "get_aggregator" /\ ~call.enabled /\ call.err = "Ok"
    /\ call.resolver_calls = 0 /\ ~call.resolver.found
    /\ call.id \in Held /\ ~trail[call.id].created
    /\ aggregators[call.id].state = "Data"

\* C23: an aggregator created by create_new_aggregator in this transaction
\* and not removed since is a Data instance whose value is what its
\* successful add and sub calls have accumulated from 0; get_aggregator on
\* its id succeeds for either value of aggregator_enabled, whatever the
\* resolver answers, and returns that instance as it is; read_and_materialize
\* returns the accumulated value; neither calls the resolver.
C23_CreatedIsKnown ==
    [][ \A id \in AggregatorIDs : trail[id].live =>
          /\ id \in Held
          /\ aggregators[id].state = "Data" /\ aggregators[id].history = None
          /\ aggregators[id].value = trail[id].sum
          /\ (call'.id = id /\ call'.op \in {"get_aggregator", "read_and_materialize"}) =>
                /\ call'.err = "Ok"
                /\ call'.resolver_calls = 0
                /\ id \in DOMAIN aggregators'
                /\ aggregators'[id] = aggregators[id]
                /\ (call'.op = "read_and_materialize" \/ ~call'.enabled)
                      => call'.ret = trail[id].sum ]_vars

\* A get_aggregator with aggregator_enabled = false and a resolver without a
\* value has just returned a created aggregator that add and sub had changed.
C23_Witness ==
    /\ call.op = "get_aggregator" /\ ~call.enabled /\ ~call.resolver.found
    /\ call.err = "Ok"
    /\ trail[call.id].live /\ trail[call.id].sum > 0
    /\ call.ret = trail[call.id].sum

(***************************************************************************)
(* addition and subtraction by themselves, on every triple of operands of *)
(* the width.                                                              *)
(***************************************************************************)
Words == 0 .. (WordRange - 1)

InitArith ==
    /\ RegistryInit
    /\ comm = NoComm
    /\ gen = NoGen
    /\ \E a \in Words, b \in Words, limit \in Words :
          arith = [phase |-> "operands", a |-> a, b |-> b, limit |-> limit,
                   sum |-> Ok(0), difference |-> Ok(0)]

\* addition(a, b, limit) and subtraction(a, b)
ArithApply ==
    /\ arith.phase = "operands"
    /\ arith' = [arith EXCEPT !.phase = "results",
                              !.sum = addition(arith.a, arith.b, arith.limit),
                              !.difference = subtraction(arith.a, arith.b)]
    /\ UNCHANGED << registry, comm, gen >>

NextArith == ArithApply

SpecArith == InitArith /\ [][NextArith]_vars

\* C24: addition(a, b, limit) returns a + b exactly when the true sum is at
\* most limit and fails with Overflow otherwise, also when the true sum is
\* beyond the width; subtraction(a, b) returns a - b exactly when b <= a and
\* fails with Underflow otherwise; the two errors differ.
C24_CheckedArithmetic ==
    arith.phase = "results" =>
        /\ IF arith.a + arith.b <= arith.limit
           THEN arith.sum = [err |-> "Ok", val |-> arith.a + arith.b]
           ELSE arith.sum.err = "Overflow"
        /\ IF arith.b <= arith.a
           THEN arith.difference = [err |-> "Ok", val |-> arith.a - arith.b]
           ELSE arith.difference.err = "Underflow"
        /\ arith.sum.val \in Words /\ arith.difference.val \in Words
        /\ arith.sum.err # "Ok" /\ arith.difference.err # "Ok"
              => arith.sum.err # arith.difference.err

\* An addition whose true sum is beyond the width has failed with Overflow
\* under the largest limit, next to a subtraction that failed with Underflow.
C24_Witness ==
    /\ arith.phase = "results"
    /\ arith.a + arith.b >= WordRange /\ arith.limit = WordRange - 1
    /\ arith.sum.err = "Overflow"
    /\ arith.difference.err = "Underflow"

(***************************************************************************)
(* One sequence of add/sub calls applied to a fresh PositiveDelta(0)       *)
(* aggregator, read against a base afterwards, and to a Data aggregator    *)
(* that holds the base from the start.  A call that fails leaves its       *)
(* aggregator as it was and the run goes on; ok tells whether every call   *)
(* so far succeeded.                                                       *)
(***************************************************************************)
InitDefer ==
    /\ RegistryInit
    /\ gen = NoGen
    /\ arith = NoArith
    /\ \E limit \in Limits, seq \in OpSequences :
          \E base \in 0 .. limit :
             comm = [phase |-> "defer", limit |-> limit, base |-> base, seq |-> seq,
                     done |-> 0,
                     deferred |-> FreshDelta(limit),
                     eager |-> [FreshData(limit) EXCEPT !.value = base],
                     deferred_ok |-> TRUE, eager_ok |-> TRUE, ret |-> Ok(0)]

\* The next call of the sequence on both aggregators.
DeferApply ==
    /\ comm.phase = "defer"
    /\ comm.done < Len(comm.seq)
    /\ LET k  == comm.done + 1
           rD == Apply(comm.deferred, comm.seq[k])
           rE == Apply(comm.eager, comm.seq[k])
       IN  comm' = [comm EXCEPT !.done = k, !.deferred = rD.agg, !.eager = rE.agg,
                                !.deferred_ok = @ /\ rD.err = "Ok" /\ ~rD.panic,
                                !.eager_ok = @ /\ rE.err = "Ok" /\ ~rE.panic]
    /\ UNCHANGED << registry, gen, arith >>

\* read_and_materialize of the delta aggregator against the base.
DeferMaterialize ==
    /\ comm.phase = "defer"
    /\ comm.done = Len(comm.seq)
    /\ LET r == read_and_materialize(comm.deferred, Resolved(comm.base))
       IN  comm' = [comm EXCEPT !.phase = "defer_read", !.deferred = r.agg,
                                !.deferred_ok = @ /\ r.err = "Ok" /\ ~r.panic,
                                !.ret = [err |-> r.err, val |-> r.val]]
    /\ UNCHANGED << registry, gen, arith >>

NextDefer == DeferApply \/ DeferMaterialize

SpecDefer == InitDefer /\ [][NextDefer]_vars

\* C25: for a base v <= limit and a sequence of add/sub calls, the calls on a
\* fresh PositiveDelta(0) aggregator and the materialization against v all
\* succeed, with result r, if and only if the calls on a Data aggregator of
\* the same limit that holds v all succeed, with final value r.
C25_DeferredAgreesWithEager ==
    comm.phase = "defer_read" =>
        /\ comm.deferred_ok <=> comm.eager_ok
        /\ comm.deferred_ok =>
              /\ comm.ret.val = comm.eager.value
              /\ comm.deferred = comm.eager

\* A run of three calls that went below zero relative to the deferred
\* aggregator's start has succeeded on both aggregators with the same
\* nonzero value.
C25_Witness ==
    /\ comm.phase = "defer_read"
    /\ comm.deferred_ok /\ comm.eager_ok
    /\ Len(comm.seq) = 3
    /\ \E k \in 1 .. 3 : PrefixSum(comm.seq, k) < 0
    /\ \E k \in 1 .. 3 : PrefixSum(comm.seq, k) > 0
    /\ comm.ret.val > 0 /\ comm.ret.val = comm.eager.value

\* C26: a get_aggregator(id, limit, resolver, aggregator_enabled = false) on
\* an id the map does not hold whose materialization fails returns the error
\* (ResolutionFailed, Overflow or Underflow) and leaves the entry it
\* inserted: id is held as PositiveDelta with value 0, the given limit and
\* history (0, 0), and num_aggregators has grown by one.
C26_FailedEagerGetKeepsEntry ==
    [][ \A id \in AggregatorIDs :
          ( /\ call'.op = "get_aggregator" /\ call'.id = id
            /\ ~call'.enabled /\ call'.err # "Ok"
            /\ id \notin Held )
          => /\ call'.err \in {"ResolutionFailed", "Overflow", "Underflow"}
             /\ id \in DOMAIN aggregators'
             /\ aggregators'[id] =
                   [value |-> 0, state |-> "PositiveDelta", limit |-> call'.arg,
                    history |-> << [max_positive |-> 0, min_negative |-> 0] >>]
             /\ num_aggregators(aggregators') = num_aggregators(aggregators) + 1
             /\ new_aggregators' = new_aggregators
             /\ destroyed_aggregators' = destroyed_aggregators ]_vars

\* A get_aggregator with aggregator_enabled = false has just failed with
\* Overflow, the resolved value being above the limit, and the only entry of
\* the map is the fresh one of its id.
C26_Witness ==
    /\ call.op = "get_aggregator" /\ ~call.enabled /\ call.err = "Overflow"
    /\ call.resolver.found /\ call.resolver.value > call.arg
    /\ Held = {call.id}
    /\ aggregators[call.id] = FreshDelta(call.arg)
    /\ num_aggregators(aggregators) = 1

\* C27: in every reachable delta state the history covers the current
\* magnitude: value <= max_positive in PositiveDelta, value <= min_negative
\* in NegativeDelta.  So for every base that passes the two history checks of
\* read_and_materialize, applying the current delta to the base succeeds.
C27_HistoryCoversValue ==
    \A id \in Held :
        LET agg == aggregators[id]
        IN  IsDelta(agg) =>
              /\ agg.history # None
              /\ agg.state = "PositiveDelta" => agg.value <= agg.history[1].max_positive
              /\ agg.state = "NegativeDelta" => agg.value <= agg.history[1].min_negative
              /\ \A v \in StoredValues :
                    ( /\ addition(v, agg.history[1].max_positive, agg.limit).err = "Ok"
                      /\ subtraction(v, agg.history[1].min_negative).err = "Ok" )
                    => ApplyDelta(agg, v).err = "Ok"

\* A sub has just brought a positive delta below the largest value it had,
\* on an aggregator that has been negative before.
C27_Witness ==
    /\ call.op = "sub" /\ call.err = "Ok" /\ call.arg > 0 /\ call.id \in Held
    /\ aggregators[call.id].state = "PositiveDelta"
    /\ aggregators[call.id].value > 0
    /\ aggregators[call.id].value < aggregators[call.id].history[1].max_positive
    /\ aggregators[call.id].history[1].min_negative > 0

\* C28: an aggregator in NegativeDelta state has 1 <= value <= limit: a net
\* delta of zero is PositiveDelta 0, never NegativeDelta 0, and there is no
\* NegativeDelta under limit 0.
C28_NegativeDeltaRange ==
    \A id \in Held :
        aggregators[id].state = "NegativeDelta" =>
           /\ 1 <= aggregators[id].value
           /\ aggregators[id].value <= aggregators[id].limit
           /\ aggregators[id].limit # 0

\* An add has just reduced a negative delta to magnitude 1 without crossing
\* zero.
C28_Witness ==
    /\ call.op = "add" /\ call.err = "Ok" /\ call.arg > 0 /\ call.id \in Held
    /\ aggregators[call.id].state = "NegativeDelta"
    /\ aggregators[call.id].value = 1

\* C29: an aggregator that started as PositiveDelta(0) and has not been
\* materialized encodes, as +value in PositiveDelta and -value in
\* NegativeDelta, the sum of the amounts of its successful add calls minus
\* the sum of the amounts of its successful sub calls.
C29_DeltaIsSumOfCalls ==
    \A id \in Held :
        IsDelta(aggregators[id]) =>
           /\ id \in DOMAIN observed
           /\ Pending(aggregators[id]) = observed[id].delta

\* A call has just failed on an aggregator whose delta is negative and has
\* been positive before.
C29_Witness ==
    /\ call.op \in {"add", "sub"} /\ call.err # "Ok" /\ call.arg > 0
    /\ call.id \in Held /\ call.id \in DOMAIN observed
    /\ aggregators[call.id].state = "NegativeDelta"
    /\ observed[call.id].delta < 0
    /\ observed[call.id].max_seen > 0

(***************************************************************************)
(* A transaction that touches two aggregators.                             *)
(***************************************************************************)
PairResolverAnswers == {ResolveFailure} \cup {Resolved(v) : v \in PairStoredValues}

NextPair ==
    \/ \E id \in PairIDs, limit \in PairLimits, resolver \in PairResolverAnswers,
          aggregator_enabled \in BOOLEAN :
            GetAggregator(id, limit, resolver, aggregator_enabled)
    \/ \E id \in PairIDs, limit \in PairLimits : CreateNewAggregator(id, limit)
    \/ \E id \in PairIDs : RemoveAggregator(id)
    \/ GenerateId
    \/ \E id \in PairIDs, value \in PairDeltas : Add(id, value)
    \/ \E id \in PairIDs, value \in PairDeltas : Sub(id, value)
    \/ \E id \in PairIDs, resolver \in PairResolverAnswers : ReadAndMaterialize(id, resolver)

SpecPair == Init /\ [][NextPair]_vars

\* C30: a get_aggregator, create_new_aggregator, remove_aggregator, add, sub
\* or read_and_materialize for id A leaves the instance of every other id B
\* and B's membership in new_aggregators and destroyed_aggregators as they
\* were, and leaves id_counter; generate_id leaves the three collections.
C30_Independence ==
    [][ /\ \A A \in PairIDs :
             ( /\ call'.id = A
               /\ call'.op \in {"get_aggregator", "create_new_aggregator",
                                "remove_aggregator", "add", "sub",
                                "read_and_materialize"} )
             => /\ id_counter' = id_counter
                /\ \A B \in PairIDs \ {A} :
                      /\ B \in DOMAIN aggregators' <=> B \in DOMAIN aggregators
                      /\ B \in DOMAIN aggregators => aggregators'[B] = aggregators[B]
                      /\ B \in new_aggregators' <=> B \in new_aggregators
                      /\ B \in destroyed_aggregators' <=> B \in destroyed_aggregators
        /\ call'.op = "generate_id" =>
             /\ aggregators' = aggregators
             /\ new_aggregators' = new_aggregators
             /\ destroyed_aggregators' = destroyed_aggregators ]_vars

\* A remove_aggregator of one id has just marked it destroyed while the other
\* id holds an aggregator created in this transaction and changed since.
C30_Witness ==
    /\ call.op = "remove_aggregator"
    /\ call.id \in destroyed_aggregators
    /\ \E B \in PairIDs \ {call.id} :
          /\ B \in Held /\ B \in new_aggregators
          /\ aggregators[B].value > 0

\* C31: read_and_materialize of a delta applies its checks in one order.  A
\* resolver that cannot answer is reported (ResolutionFailed) whatever the
\* history holds; with a base v, v + max_positive > limit gives Overflow,
\* also when v < min_negative as well, and Underflow is the error only when
\* the first check passed.
C31_CheckOrder ==
    [][ \A id \in AggregatorIDs :
          (Materializes(id) /\ IsDelta(EntryOf(id))) =>
             LET agg == EntryOf(id)
                 h   == agg.history[1]
                 v   == call'.resolver.value
             IN  IF ~call'.resolver.found
                 THEN call'.err = "ResolutionFailed"
                 ELSE /\ (v + h.max_positive > agg.limit /\ v < h.min_negative)
                            => call'.err = "Overflow"
                      /\ call'.err = "Underflow"
                            => (v + h.max_positive <= agg.limit /\ v < h.min_negative)
                      /\ call'.err # "ResolutionFailed" ]_vars

\* A read_and_materialize has just failed with Overflow against a base that
\* is both too large for max_positive and too small for min_negative.
C31_Witness ==
    /\ call.op = "read_and_materialize" /\ call.err = "Overflow"
    /\ call.resolver.found /\ call.id \in Held
    /\ IsDelta(aggregators[call.id])
    /\ LET agg == aggregators[call.id]
       IN  /\ call.resolver.value + agg.history[1].max_positive > agg.limit
           /\ call.resolver.value < agg.history[1].min_negative
           /\ agg.value <= agg.limit

\* C32: across an add or sub on an aggregator in a delta state, successful
\* or failing, max_positive and min_negative do not decrease (a failing call
\* leaves the history as it is), whichever way the delta moves; an aggregator
\* in Data state has no history before or after any call.
C32_HistoryMonotone ==
    [][ \A id \in Held :
          /\ (call'.op \in {"add", "sub"} /\ call'.id = id) =>
                LET agg   == aggregators[id]
                    after == aggregators'[id]
                IN  IF IsDelta(agg)
                    THEN /\ IsDelta(after) /\ after.history # None
                         /\ after.history[1].max_positive >= agg.history[1].max_positive
                         /\ after.history[1].min_negative >= agg.history[1].min_negative
                         /\ call'.err # "Ok" => after.history = agg.history
                    ELSE after.state = "Data" /\ after.history = None
          /\ aggregators[id].state = "Data" => aggregators[id].history = None
          /\ (id \in DOMAIN aggregators' /\ aggregators'[id].state = "Data")
                => aggregators'[id].history = None ]_vars

\* An add has just turned a negative delta into a positive one that is below
\* the recorded maximum; both extremes of the history are kept.
C32_Witness ==
    /\ call.op = "add" /\ call.err = "Ok" /\ call.arg > 0 /\ call.id \in Held
    /\ LET agg == aggregators[call.id]
       IN  /\ agg.state = "PositiveDelta"
           /\ agg.value > 0 /\ agg.value < call.arg
           /\ agg.history[1].max_positive > agg.value
           /\ agg.history[1].min_negative = call.arg - agg.value

=============================================================================
